---- MODULE Spec2Model ----
(***************************************************************************)
(* Drainability of the pods of a node: the PDB rule, the rule chain        *)
(* (drainabilityStatus) and the drain evaluator (GetPodsToMove) of the     *)
(* cluster-autoscaler simulator.                                           *)
(***************************************************************************)
EXTENDS Integers, Sequences, FiniteSets, TLC

VARIABLES
    pc,                \* "idle" | "loop" | "done": position of the running call
    node,              \* nodeInfo.Pods, the pods of the node in input order
    options,           \* deleteOptions (NodeDeleteOptions)
    tracker,           \* remainingPdbTracker argument: "nil" or "tracker"
    ledger,            \* what the tracker's GetPdbs() returns right now
    drainabilityRules, \* local: the resolved rule chain
    i,                 \* local: index of the next pod of the range loop
    pods,              \* named result pods, also the pending (Undefined) list
    drainPods,         \* local drainPods
    drainDS,           \* local drainDS
    ret,               \* what the last finished call returned
    evaluated,         \* ids of the pods handed to drainabilityStatus, in order
    reads,             \* budget sets observed by the GetPdbs() calls of the call
    legacyArgs,        \* arguments of the legacy path's invocation, if any
    calls,             \* number of calls entered
    first,             \* what the first call returned
    updates            \* number of ledger updates by its owner

vars == <<pc, node, options, tracker, ledger, drainabilityRules, i, pods,
          drainPods, drainDS, ret, evaluated, reads, legacyArgs, calls,
          first, updates>>

---------------------------------------------------------------------------
(* Bounds *)
MaxPods == 2
MaxRules == 2
MaxChain == 2
MaxPdbs == 3
MaxCalls == 2
MaxUpdates == 1

RECURSIVE SeqsUpTo(_, _)
SeqsUpTo(S, n) ==
    IF n = 0 THEN {<<>>}
    ELSE LET shorter == SeqsUpTo(S, n - 1)
         IN shorter \cup {Append(s, x) : s \in {t \in shorter : Len(t) = n - 1}, x \in S}

Range(s) == {s[k] : k \in 1..Len(s)}

---------------------------------------------------------------------------
(* Pods, label selectors and disruption budgets *)

Namespaces == {"a", "b"}
LabelValues == {"x", "y"}
Owners == {"rs", "ds", "custom", "none"}

\* A pod: name, namespace, its label app=<label>, the kind of its owning
\* controller. A node's pods are named by their place in the node's list.
Pod(name, ns, label, owner) ==
    [Name |-> name, Namespace |-> ns, label |-> label, owner |-> owner]

\* pdb.Spec.Selector: nil, the empty selector, matchLabels {app: x}, or a
\* matchExpressions entry with an operator that does not exist.
LabelSelectors ==
    { [kind |-> "nil", val |-> ""],
      [kind |-> "empty", val |-> ""],
      [kind |-> "matchLabels", val |-> "x"],
      [kind |-> "badOperator", val |-> "x"] }

PodDisruptionBudget(ns, sel, allowed) ==
    [Namespace |-> ns, Selector |-> sel, DisruptionsAllowed |-> allowed]

AllPdbs ==
    { PodDisruptionBudget(ns, sel, n) : ns \in Namespaces, sel \in LabelSelectors, n \in {0, 1} }

\* metav1.LabelSelectorAsSelector: nil selects nothing, the empty selector
\* everything, matchLabels the pods carrying the label; an unknown operator
\* is an error.
LabelSelectorAsSelector(ps) ==
    CASE ps.kind = "nil" -> [err |-> FALSE, selector |-> [kind |-> "Nothing", val |-> ""]]
      [] ps.kind = "empty" -> [err |-> FALSE, selector |-> [kind |-> "Everything", val |-> ""]]
      [] ps.kind = "matchLabels" -> [err |-> FALSE, selector |-> [kind |-> "Equals", val |-> ps.val]]
      [] OTHER -> [err |-> TRUE, selector |-> [kind |-> "Nothing", val |-> ""]]

\* selector.Matches(labels.Set(pod.Labels))
Matches(selector, pod) ==
    CASE selector.kind = "Nothing" -> FALSE
      [] selector.kind = "Everything" -> TRUE
      [] OTHER -> pod.label = selector.val

---------------------------------------------------------------------------
(* Drainability statuses *)

\* An error value: nil, or fmt.Errorf's message with the pod it names.
NoError == [msg |-> "nil", Namespace |-> "", Name |-> 0]
Errorf(msg, ns, name) == [msg |-> msg, Namespace |-> ns, Name |-> name]

NewUndefinedStatus ==
    [Outcome |-> "UndefinedOutcome", BlockingReason |-> "NoReason", Error |-> NoError]
NewDrainableStatus ==
    [Outcome |-> "DrainOk", BlockingReason |-> "NoReason", Error |-> NoError]
NewBlockedStatus(reason, err) ==
    [Outcome |-> "BlockDrain", BlockingReason |-> reason, Error |-> err]

---------------------------------------------------------------------------
(* The PDB rule *)

\* RemainingPdbTracker.GetPdbs()
GetPdbs == ledger

\* Faulty variant of pdbLoop: a selector that fails to parse is skipped and
\* the iteration goes on.
RECURSIVE pdbLoopSkipMalformed(_, _, _)
pdbLoopSkipMalformed(pod, pdbs, k) ==
    IF k > Len(pdbs) THEN NewUndefinedStatus
    ELSE LET pdb == pdbs[k]
             parsed == LabelSelectorAsSelector(pdb.Selector)
         IN IF ~parsed.err /\ pod.Namespace = pdb.Namespace /\ Matches(parsed.selector, pod)
                /\ pdb.DisruptionsAllowed < 1
            THEN NewBlockedStatus("NotEnoughPdb",
                     Errorf("not enough pod disruption budget to move", pod.Namespace, pod.Name))
            ELSE pdbLoopSkipMalformed(pod, pdbs, k + 1)

\* Faulty variant of pdbLoop: the namespaces are not compared.
RECURSIVE pdbLoopAnyNamespace(_, _, _)
pdbLoopAnyNamespace(pod, pdbs, k) ==
    IF k > Len(pdbs) THEN NewUndefinedStatus
    ELSE LET pdb == pdbs[k]
             parsed == LabelSelectorAsSelector(pdb.Selector)
         IN IF parsed.err
            THEN NewBlockedStatus("UnexpectedError",
                     Errorf("failed to convert label selector", "", 0))
            ELSE IF Matches(parsed.selector, pod) /\ pdb.DisruptionsAllowed < 1
            THEN NewBlockedStatus("NotEnoughPdb",
                     Errorf("not enough pod disruption budget to move", pod.Namespace, pod.Name))
            ELSE pdbLoopAnyNamespace(pod, pdbs, k + 1)

\* Faulty variant of pdbLoop: only the first budget is looked at.
pdbLoopFirstOnly(pod, pdbs, k) ==
    IF k > Len(pdbs) THEN NewUndefinedStatus
    ELSE LET pdb == pdbs[k]
             parsed == LabelSelectorAsSelector(pdb.Selector)
         IN IF parsed.err
            THEN NewBlockedStatus("UnexpectedError",
                     Errorf("failed to convert label selector", "", 0))
            ELSE IF pod.Namespace = pdb.Namespace /\ Matches(parsed.selector, pod)
                    /\ pdb.DisruptionsAllowed < 1
            THEN NewBlockedStatus("NotEnoughPdb",
                     Errorf("not enough pod disruption budget to move", pod.Namespace, pod.Name))
            ELSE NewUndefinedStatus

\* for _, pdb := range pdbs { ... } return NewUndefinedStatus(), from index k on
RECURSIVE pdbLoop(_, _, _)
pdbLoop(pod, pdbs, k) ==
    IF k > Len(pdbs) THEN NewUndefinedStatus
    ELSE LET pdb == pdbs[k]
             parsed == LabelSelectorAsSelector(pdb.Selector)
         IN IF parsed.err
            THEN NewBlockedStatus("UnexpectedError",
                     Errorf("failed to convert label selector", "", 0))
            ELSE IF pod.Namespace = pdb.Namespace /\ Matches(parsed.selector, pod)
                    /\ pdb.DisruptionsAllowed < 1
            THEN NewBlockedStatus("NotEnoughPdb",
                     Errorf("not enough pod disruption budget to move", pod.Namespace, pod.Name))
            ELSE pdbLoop(pod, pdbs, k + 1)

\* (r *PdbRule) Drainable(pod), r.tracker being t
PdbRuleDrainable(t, pod) ==
    IF t = "nil" THEN NewUndefinedStatus
    ELSE pdbLoop(pod, GetPdbs, 1)

---------------------------------------------------------------------------
(* Rules and the rule chain *)

\* A rule other than the PDB rule (the Rule interface leaves its decision
\* open): it decides from the pod's label.
PluginStatuses ==
    { NewUndefinedStatus,
      NewDrainableStatus,
      NewBlockedStatus("UnexpectedError", Errorf("plugin A", "", 0)),
      NewBlockedStatus("NotSafeToEvictAnnotation", Errorf("plugin B", "", 0)) }

PluginRule(verdict) == [kind |-> "plugin", tracker |-> "nil", verdict |-> verdict]
PluginRules == { PluginRule(v) : v \in [LabelValues -> PluginStatuses] }

\* NewPdbRule(tracker)
NewPdbRule(t) ==
    [kind |-> "pdb", tracker |-> t, verdict |-> [l \in LabelValues |-> NewUndefinedStatus]]

\* The mirror pod rule leaves every pod that is not a mirror pod undecided;
\* the pods here are not mirror pods.
NewMirrorPodRule == PluginRule([l \in LabelValues |-> NewUndefinedStatus])

\* drainability.DefaultRules(tracker)
DefaultRules(t) == <<NewMirrorPodRule, NewPdbRule(t)>>

\* f.Drainable(pod): the call through the Rule interface
Drainable(f, pod) ==
    IF f.kind = "pdb" THEN PdbRuleDrainable(f.tracker, pod)
    ELSE f.verdict[pod.label]

\* Faulty variant of chainLoop: the loop does not return at the first decisive
\* rule, and a later decisive rule overrides an earlier one.
RECURSIVE chainLoopLastWins(_, _, _)
chainLoopLastWins(pod, dr, k) ==
    IF k > Len(dr)
    THEN [d |-> NewUndefinedStatus, consulted |-> Len(dr)]
    ELSE LET d == Drainable(dr[k], pod)
             rest == chainLoopLastWins(pod, dr, k + 1)
         IN IF rest.d.Outcome # "UndefinedOutcome" THEN rest
            ELSE [d |-> d, consulted |-> Len(dr)]

\* The loop of drainabilityStatus from the rule at index k on: the Status
\* returned and the number of rules of dr whose Drainable was called.
RECURSIVE chainLoop(_, _, _)
chainLoop(pod, dr, k) ==
    IF k > Len(dr)
    THEN [d |-> NewUndefinedStatus, consulted |-> Len(dr)]
    ELSE LET d == Drainable(dr[k], pod)
         IN IF d.Outcome # "UndefinedOutcome"
            THEN [d |-> d, consulted |-> k]
            ELSE chainLoop(pod, dr, k + 1)

drainabilityStatus(pod, dr) == chainLoop(pod, dr, 1)

---------------------------------------------------------------------------
(* The legacy eligibility path *)

NoPod == Pod(0, "", "", "")
NilBlockingPod == [isNil |-> TRUE, Pod |-> NoPod, Reason |-> ""]
BlockingPod(pod, reason) == [isNil |-> FALSE, Pod |-> pod, Reason |-> reason]

Return(p, ds, bp, err) == [pods |-> p, daemonSetPods |-> ds, blockingPod |-> bp, err |-> err]

\* drain.GetPodsForDeletionOnNodeDrain over podList from index k on: a daemon
\* set pod goes to the daemon list, a replicated pod to the movable list, a
\* pod of a custom controller too unless such pods are to be skipped; an
\* unreplicated pod or a disallowed one ends the check with empty lists, the
\* pod and an error.
RECURSIVE legacyLoop(_, _, _, _, _)
legacyLoop(podList, skipCustom, k, accPods, accDS) ==
    IF k > Len(podList) THEN Return(accPods, accDS, NilBlockingPod, NoError)
    ELSE LET pod == podList[k]
         IN CASE pod.owner = "ds" ->
                     legacyLoop(podList, skipCustom, k + 1, accPods, Append(accDS, pod))
              [] pod.owner = "rs" ->
                     legacyLoop(podList, skipCustom, k + 1, Append(accPods, pod), accDS)
              [] pod.owner = "custom" /\ ~skipCustom ->
                     legacyLoop(podList, skipCustom, k + 1, Append(accPods, pod), accDS)
              [] pod.owner = "custom" /\ skipCustom ->
                     Return(<<>>, <<>>, BlockingPod(pod, "NotReplicated"),
                            Errorf("pod is controlled by a custom controller", pod.Namespace, pod.Name))
              [] OTHER ->
                     Return(<<>>, <<>>, BlockingPod(pod, "NotReplicated"),
                            Errorf("pod is not replicated", pod.Namespace, pod.Name))

GetPodsForDeletionOnNodeDrain(podList, pdbs, skipSystem, skipLocal, skipCustom, minReplica) ==
    legacyLoop(podList, skipCustom, 1, <<>>, <<>>)

\* pod_util.IsDaemonSetPod(pod)
IsDaemonSetPod(pod) == pod.owner = "ds"

---------------------------------------------------------------------------
(* GetPodsToMove *)

NoReturn == Return(<<>>, <<>>, NilBlockingPod, Errorf("no call has returned", "", 0))
NoLegacy == [called |-> FALSE, pods |-> <<>>, pdbs |-> <<>>]

NodeDeleteOptions(rules, skipCustom) ==
    [ SkipNodesWithSystemPods |-> FALSE,
      SkipNodesWithLocalStorage |-> FALSE,
      SkipNodesWithCustomControllerPods |-> skipCustom,
      MinReplicaCount |-> 0,
      DrainabilityRules |-> rules ]

\* deleteOptions.DrainabilityRules: nil, or a list of rules
NilRules == [isNil |-> TRUE, rules |-> <<>>]
RuleList(dr) == [isNil |-> FALSE, rules |-> dr]

\* Faulty variant of EnterLocals: the lists outlive the call.
StaleLocals == [pods |-> pods, drainPods |-> drainPods, drainDS |-> drainDS]

\* The named results and var drainPods, drainDS start each call empty.
EnterLocals == [pods |-> <<>>, drainPods |-> <<>>, drainDS |-> <<>>]

---------------------------------------------------------------------------
(* Inputs of GetPodsToMove *)

\* Nodes of up to MaxPods pods of namespace "a"
RECURSIVE NodesOfLen(_)
NodesOfLen(n) ==
    IF n = 0 THEN {<<>>}
    ELSE { Append(s, Pod(n, "a", l, o)) : s \in NodesOfLen(n - 1), l \in LabelValues, o \in Owners }

Nodes == UNION { NodesOfLen(n) : n \in 0..MaxPods }

\* Budget sets of the tracker: an exhausted budget over app=x, one with a
\* disruption left, one whose selector does not parse.
SpecLedgers ==
    { <<PodDisruptionBudget("a", [kind |-> "matchLabels", val |-> "x"], 0)>>,
      <<PodDisruptionBudget("a", [kind |-> "matchLabels", val |-> "x"], 1)>>,
      <<PodDisruptionBudget("b", [kind |-> "badOperator", val |-> "x"], 1)>> }

\* Rules of the chains of deleteOptions: the PDB rule, a rule that lets the
\* pods app=x drain, a rule that blocks the pods app=y.
SpecRules ==
    { NewPdbRule("tracker"),
      PluginRule([l \in LabelValues |->
          IF l = "x" THEN NewDrainableStatus ELSE NewUndefinedStatus]),
      PluginRule([l \in LabelValues |->
          IF l = "y" THEN NewBlockedStatus("UnexpectedError", Errorf("plugin A", "", 0))
          ELSE NewUndefinedStatus]) }

\* deleteOptions.DrainabilityRules: nil, or a chain of up to MaxChain of these
\* rules, each at most once.
OptionRules ==
    {NilRules} \cup
    { RuleList(dr) : dr \in { s \in SeqsUpTo(SpecRules, MaxChain) :
                                 \A a, b \in 1..Len(s) : a # b => s[a] # s[b] } }

\* Entry of GetPodsToMove: the rule chain is the one of deleteOptions, or the
\* default chain over remainingPdbTracker when deleteOptions has none.
Enter ==
    /\ pc \in {"idle", "done"}
    /\ calls < MaxCalls
    /\ drainabilityRules' =
           IF options.DrainabilityRules.isNil THEN DefaultRules(tracker)
           ELSE options.DrainabilityRules.rules
    /\ pods' = EnterLocals.pods
    /\ drainPods' = EnterLocals.drainPods
    /\ drainDS' = EnterLocals.drainDS
    /\ i' = 1
    /\ evaluated' = <<>>
    /\ reads' = {}
    /\ legacyArgs' = NoLegacy
    /\ calls' = calls + 1
    /\ pc' = "loop"
    /\ UNCHANGED <<node, options, tracker, ledger, ret, first, updates>>

\* Faulty variant of BlockReturn: err is left nil.
BlockReturnNoErr(pod, d) ==
    Return(pods, <<>>, BlockingPod(pod, d.BlockingReason), NoError)

\* case drainability.BlockDrain: blockingPod and err are set and the named
\* results are returned as they stand.
BlockReturn(pod, d) ==
    Return(pods, <<>>, BlockingPod(pod, d.BlockingReason), d.Error)

\* Faulty variant of AfterPod: the loop goes on after a block.
AfterPodNoReturn(d) == "loop"

\* Where the call is after the switch on d.Outcome: returned on a block, else
\* in the loop.
AfterPod(d) == IF d.Outcome = "BlockDrain" THEN "done" ELSE "loop"

\* The budget sets the rules consulted for one pod read from the tracker.
RuleReads(dr, consulted) ==
    IF \E k \in 1..consulted : dr[k].kind = "pdb" /\ dr[k].tracker # "nil"
    THEN {GetPdbs} ELSE {}

\* One iteration of for _, podInfo := range nodeInfo.Pods
EvalPod ==
    /\ pc = "loop"
    /\ i <= Len(node)
    /\ LET pod == node[i]
           r == drainabilityStatus(pod, drainabilityRules)
           d == r.d
       IN /\ evaluated' = Append(evaluated, pod.Name)
          /\ reads' = reads \cup RuleReads(drainabilityRules, r.consulted)
          /\ pods' = IF d.Outcome = "UndefinedOutcome" THEN Append(pods, pod) ELSE pods
          /\ drainDS' = IF d.Outcome = "DrainOk" /\ IsDaemonSetPod(pod)
                        THEN Append(drainDS, pod) ELSE drainDS
          /\ drainPods' = IF d.Outcome = "DrainOk" /\ ~IsDaemonSetPod(pod)
                          THEN Append(drainPods, pod) ELSE drainPods
          /\ pc' = AfterPod(d)
          /\ i' = i + 1
          /\ ret' = IF d.Outcome = "BlockDrain" THEN BlockReturn(pod, d) ELSE ret
          /\ first' = IF d.Outcome = "BlockDrain" /\ AfterPod(d) = "done" /\ calls = 1
                      THEN BlockReturn(pod, d) ELSE first
    /\ UNCHANGED <<node, options, tracker, ledger, drainabilityRules, legacyArgs,
                   calls, updates>>

\* Faulty variant of MergeReturn: the rule-classified pods come first.
MergeReturnRulesFirst(legacy) ==
    IF legacy.err # NoError
    THEN Return(drainPods \o legacy.pods, drainDS \o legacy.daemonSetPods,
                legacy.blockingPod, legacy.err)
    ELSE Return(drainPods \o legacy.pods, drainDS \o legacy.daemonSetPods,
                NilBlockingPod, NoError)

\* pods = append(pods, drainPods...), daemonSetPods = append(daemonSetPods,
\* drainDS...), then the return with or without the legacy path's block.
MergeReturn(legacy) ==
    IF legacy.err # NoError
    THEN Return(legacy.pods \o drainPods, legacy.daemonSetPods \o drainDS,
                legacy.blockingPod, legacy.err)
    ELSE Return(legacy.pods \o drainPods, legacy.daemonSetPods \o drainDS,
                NilBlockingPod, NoError)

\* After the loop: the budgets are read from remainingPdbTracker, the legacy
\* path runs over the pending pods and its result is merged and returned.
LegacyPath ==
    /\ pc = "loop"
    /\ i > Len(node)
    /\ LET pdbs == IF tracker # "nil" THEN GetPdbs ELSE <<>>
           legacy == GetPodsForDeletionOnNodeDrain(pods, pdbs,
                         options.SkipNodesWithSystemPods,
                         options.SkipNodesWithLocalStorage,
                         options.SkipNodesWithCustomControllerPods,
                         options.MinReplicaCount)
       IN /\ reads' = IF tracker # "nil" THEN reads \cup {GetPdbs} ELSE reads
          /\ legacyArgs' = [called |-> TRUE, pods |-> pods, pdbs |-> pdbs]
          /\ ret' = MergeReturn(legacy)
          /\ first' = IF calls = 1 THEN MergeReturn(legacy) ELSE first
    /\ pc' = "done"
    /\ UNCHANGED <<node, options, tracker, ledger, drainabilityRules, i, pods,
                   drainPods, drainDS, evaluated, calls, updates>>

\* The tracker's owner replaces the budget set while a call is running.
UpdateLedger ==
    /\ pc = "loop"
    /\ updates < MaxUpdates
    /\ \E l \in SpecLedgers : l # ledger /\ ledger' = l
    /\ updates' = updates + 1
    /\ UNCHANGED <<pc, node, options, tracker, drainabilityRules, i, pods, drainPods,
                   drainDS, ret, evaluated, reads, legacyArgs, calls, first>>

---------------------------------------------------------------------------
(* Specifications *)

Idle ==
    /\ pc = "idle"
    /\ drainabilityRules = <<>>
    /\ i = 1
    /\ pods = <<>>
    /\ drainPods = <<>>
    /\ drainDS = <<>>
    /\ ret = NoReturn
    /\ evaluated = <<>>
    /\ reads = {}
    /\ legacyArgs = NoLegacy
    /\ calls = 0
    /\ first = NoReturn
    /\ updates = 0

\* GetPodsToMove over a node, delete options, a tracker and its budgets
Init ==
    /\ Idle
    /\ node \in Nodes
    /\ options \in { NodeDeleteOptions(r, sc) : r \in OptionRules, sc \in BOOLEAN }
    /\ tracker \in {"nil", "tracker"}
    /\ ledger \in SpecLedgers

Next == Enter \/ EvalPod \/ LegacyPath

Spec == Init /\ [][Next]_vars

\* GetPodsToMove while the tracker's owner updates the budgets
NextConc == Enter \/ EvalPod \/ LegacyPath \/ UpdateLedger

SpecConc == Init /\ [][NextConc]_vars

\* drainabilityStatus alone, over a pod and a rule list
InitChain ==
    /\ Idle
    /\ \E l \in LabelValues : node = <<Pod(1, "a", l, "rs")>>
    /\ \E dr \in SeqsUpTo(PluginRules \cup {NewPdbRule("tracker")}, MaxRules) :
           options = NodeDeleteOptions(RuleList(dr), FALSE)
    /\ tracker = "tracker"
    /\ ledger \in SpecLedgers

CallChain ==
    /\ pc = "idle"
    /\ ret' = drainabilityStatus(node[1], options.DrainabilityRules.rules)
    /\ pc' = "done"
    /\ UNCHANGED <<node, options, tracker, ledger, drainabilityRules, i, pods, drainPods,
                   drainDS, evaluated, reads, legacyArgs, calls, first, updates>>

SpecChain == InitChain /\ [][CallChain]_vars

\* PdbRule.Drainable alone, over a pod and a budget set
InitPdb ==
    /\ Idle
    /\ \E ns \in Namespaces, l \in LabelValues : node = <<Pod(1, ns, l, "rs")>>
    /\ options = NodeDeleteOptions(NilRules, FALSE)
    /\ \/ tracker = "nil" /\ ledger = <<>>
       \/ tracker = "tracker" /\ ledger \in SeqsUpTo(AllPdbs, MaxPdbs)

CallPdb ==
    /\ pc = "idle"
    /\ ret' = PdbRuleDrainable(tracker, node[1])
    /\ pc' = "done"
    /\ UNCHANGED <<node, options, tracker, ledger, drainabilityRules, i, pods, drainPods,
                   drainDS, evaluated, reads, legacyArgs, calls, first, updates>>

SpecPdb == InitPdb /\ [][CallPdb]_vars

---------------------------------------------------------------------------
(* Properties of PdbRule.Drainable, under SpecPdb *)

Min(S) == CHOOSE m \in S : \A n \in S : m <= n

Malformed(b) == LabelSelectorAsSelector(b.Selector).err

\* Budget b covers the pod: same namespace, and its selector matches.
Covers(b, pod) ==
    /\ ~Malformed(b)
    /\ b.Namespace = pod.Namespace
    /\ Matches(LabelSelectorAsSelector(b.Selector).selector, pod)

\* Places in the snapshot of the exhausted budgets that cover the pod, and of
\* the budgets whose selector does not parse.
Exhausted == { k \in 1..Len(ledger) : Covers(ledger[k], node[1]) /\ ledger[k].DisruptionsAllowed = 0 }
Unparsed == { k \in 1..Len(ledger) : Malformed(ledger[k]) }

NotEnoughPdbStatus(pod) ==
    NewBlockedStatus("NotEnoughPdb",
        Errorf("not enough pod disruption budget to move", pod.Namespace, pod.Name))
UnexpectedErrorStatus ==
    NewBlockedStatus("UnexpectedError", Errorf("failed to convert label selector", "", 0))

\* C4 as stated: whenever the snapshot holds an exhausted budget covering the
\* pod, Drainable returns Block with reason NotEnoughPdb, whatever else the
\* snapshot holds.
C4_ExhaustedAlwaysNotEnoughPdb ==
    (pc = "done" /\ tracker # "nil" /\ Exhausted # {})
        => (ret.Outcome = "BlockDrain" /\ ret.BlockingReason = "NotEnoughPdb")

\* C4 amended: whenever the snapshot holds an exhausted budget covering the
\* pod, Drainable returns Block; the reason is NotEnoughPdb (and the error
\* names the pod) unless a budget with a malformed selector precedes the first
\* such budget in snapshot order, and then it is UnexpectedError.
C4_ExhaustedBlocks ==
    (pc = "done" /\ tracker # "nil" /\ Exhausted # {})
        => IF \E j \in Unparsed : j < Min(Exhausted)
           THEN ret = UnexpectedErrorStatus
           ELSE ret = NotEnoughPdbStatus(node[1])

\* An exhausted covering budget in the last place, behind a covering budget
\* with a disruption left and a budget of another namespace, blocks.
C4_Witness ==
    /\ pc = "done" /\ tracker # "nil"
    /\ Len(ledger) = 3 /\ Exhausted = {3} /\ Unparsed = {}
    /\ Covers(ledger[1], node[1]) /\ ledger[1].DisruptionsAllowed = 1
    /\ ledger[2].Namespace # node[1].Namespace
    /\ ret = NotEnoughPdbStatus(node[1])

\* C5 as stated: a pod covered by no exhausted budget gets Undefined, whatever
\* else the snapshot holds.
C5_UncoveredAlwaysUndefined ==
    (pc = "done" /\ Exhausted = {}) => ret.Outcome = "UndefinedOutcome"

\* C5 amended: a pod covered by no exhausted budget gets Undefined provided no
\* budget of the snapshot has a malformed selector (budgets of other
\* namespaces, non-matching budgets and covering budgets with a disruption
\* left do not matter); with a malformed selector in the snapshot it gets
\* Block with reason UnexpectedError.
C5_UncoveredUndefined ==
    (pc = "done" /\ Exhausted = {})
        => IF Unparsed = {} THEN ret = NewUndefinedStatus
           ELSE ret = UnexpectedErrorStatus

\* A pod covered by a budget with a disruption left, beside an exhausted
\* budget of the other namespace whose selector matches it, gets Undefined.
C5_Witness ==
    /\ pc = "done" /\ tracker # "nil" /\ Exhausted = {} /\ Unparsed = {}
    /\ \E k \in 1..Len(ledger) : Covers(ledger[k], node[1]) /\ ledger[k].DisruptionsAllowed = 1
    /\ \E k \in 1..Len(ledger) :
           /\ ledger[k].Namespace # node[1].Namespace
           /\ ledger[k].DisruptionsAllowed = 0
           /\ Matches(LabelSelectorAsSelector(ledger[k].Selector).selector, node[1])
    /\ ret = NewUndefinedStatus

\* C6 as stated: whenever a budget of the snapshot has a malformed selector,
\* Drainable returns Block with reason UnexpectedError, wherever the budget
\* sits and whatever the other budgets are.
C6_MalformedAlwaysUnexpectedError ==
    (pc = "done" /\ tracker # "nil" /\ Unparsed # {})
        => (ret.Outcome = "BlockDrain" /\ ret.BlockingReason = "UnexpectedError")

\* C6 amended: whenever a budget of the snapshot has a malformed selector,
\* Drainable returns Block for every pod, with reason UnexpectedError unless
\* an exhausted budget covering the pod precedes the first malformed budget
\* in snapshot order, and then with reason NotEnoughPdb.
C6_MalformedBlocks ==
    (pc = "done" /\ tracker # "nil" /\ Unparsed # {})
        => IF \E j \in Exhausted : j < Min(Unparsed)
           THEN ret = NotEnoughPdbStatus(node[1])
           ELSE ret = UnexpectedErrorStatus

\* A malformed budget in the last place, behind a covering budget with a
\* disruption left and with no exhausted budget covering the pod, blocks
\* with UnexpectedError.
C6_Witness ==
    /\ pc = "done" /\ tracker # "nil"
    /\ Len(ledger) = 3 /\ Unparsed = {3} /\ Exhausted = {}
    /\ Covers(ledger[1], node[1])
    /\ ret = UnexpectedErrorStatus

---------------------------------------------------------------------------
(* Properties of drainabilityStatus, under SpecChain *)

ChainRules == options.DrainabilityRules.rules
Decisive == { k \in 1..Len(ChainRules) :
                Drainable(ChainRules[k], node[1]).Outcome # "UndefinedOutcome" }

\* C1: drainabilityStatus returns the Status of the first rule of the list
\* whose Outcome is not Undefined and consults no rule after it; when every
\* rule returns Undefined (or the list is empty) it returns Undefined.
C1_FirstDecisiveRule ==
    pc = "done" =>
        IF Decisive = {}
        THEN ret.d.Outcome = "UndefinedOutcome" /\ ret.consulted = Len(ChainRules)
        ELSE /\ ret.d = Drainable(ChainRules[Min(Decisive)], node[1])
             /\ ret.consulted = Min(Decisive)

\* Two rules that disagree: the first one's Status is returned and the
\* second is not consulted.
C1_Witness ==
    /\ pc = "done"
    /\ Decisive = {1, 2}
    /\ Drainable(ChainRules[1], node[1]).Outcome # Drainable(ChainRules[2], node[1]).Outcome
    /\ ret.d = Drainable(ChainRules[1], node[1])
    /\ ret.consulted = 1

---------------------------------------------------------------------------
(* Properties of GetPodsToMove, under Spec *)

\* The chain's Outcome for a pod of the node
ChainOutcome(pod) == drainabilityStatus(pod, drainabilityRules).d.Outcome

\* Places in the node of the pods the chain blocks
Blockers == { k \in 1..Len(node) : ChainOutcome(node[k]) = "BlockDrain" }

Returned == pc = "done"
Listed == Range(ret.pods) \cup Range(ret.daemonSetPods)

C3_NoPodAfterBlocker ==
    (Returned /\ ~ret.blockingPod.isNil)
        => \A p \in Listed : p.Name <= ret.blockingPod.Pod.Name

\* C7: when pod k is the first pod the chain blocks, the call returns at
\* once: the chain was run for pods 1..k only, the legacy path was not
\* invoked, blockingPod is pod k with the Status's reason and err is the
\* Status's cause.
C7_FirstBlockReturns ==
    (Returned /\ Blockers # {}) =>
        LET k == Min(Blockers)
            d == drainabilityStatus(node[k], drainabilityRules).d
        IN /\ evaluated = [j \in 1..k |-> node[j].Name]
           /\ ~legacyArgs.called
           /\ ret.blockingPod = BlockingPod(node[k], d.BlockingReason)
           /\ ret.err = d.Error

\* Two pods that the chain blocks for different reasons: the first is the
\* one reported.
C7_Witness ==
    /\ Returned /\ Blockers = {1, 2}
    /\ drainabilityStatus(node[1], drainabilityRules).d
           # drainabilityStatus(node[2], drainabilityRules).d
    /\ ret.blockingPod.Pod = node[1]
    /\ evaluated = <<1>>

C9_MergeOrder ==
    LET IsUndefined(p) == ChainOutcome(p) = "UndefinedOutcome"
        IsOkMovable(p) == ChainOutcome(p) = "DrainOk" /\ ~IsDaemonSetPod(p)
        IsOkDaemon(p) == ChainOutcome(p) = "DrainOk" /\ IsDaemonSetPod(p)
        pending == SelectSeq(node, IsUndefined)
        legacy == GetPodsForDeletionOnNodeDrain(pending,
                      IF tracker # "nil" THEN ledger ELSE <<>>,
                      options.SkipNodesWithSystemPods,
                      options.SkipNodesWithLocalStorage,
                      options.SkipNodesWithCustomControllerPods,
                      options.MinReplicaCount)
    IN (Returned /\ Blockers = {} /\ legacy.err = NoError) =>
           /\ legacyArgs.called /\ legacyArgs.pods = pending
           /\ ret.pods = legacy.pods \o SelectSeq(node, IsOkMovable)
           /\ ret.daemonSetPods = legacy.daemonSetPods \o SelectSeq(node, IsOkDaemon)
           /\ ret.blockingPod.isNil /\ ret.err = NoError

\* The first pod is DrainOk and the second went through the legacy path: the
\* second comes first in the movable list.
C9_Witness ==
    /\ Returned /\ Blockers = {} /\ ret.err = NoError
    /\ Len(node) = 2
    /\ ChainOutcome(node[1]) = "DrainOk"
    /\ ChainOutcome(node[2]) = "UndefinedOutcome"
    /\ ret.pods = <<node[2], node[1]>>

---------------------------------------------------------------------------
(* Property of GetPodsToMove under concurrent ledger updates, under SpecConc *)

\* C10: within one call, every read of the disruption budgets (by the PDB
\* rule for each pod, and for the legacy path) observes the same budget set,
\* even when the ledger's owner updates the budgets during the call.
C10_OneBudgetSetPerCall ==
    Cardinality(reads) <= 1

====
